---- MODULE Spec2Model ----
(***************************************************************************)
(* Instagram Followers Analyzer (src/script.js).                           *)
(*                                                                         *)
(* The module models the class InstagramAnalyzer: parseJSON,               *)
(* extractUsernames, analyze (the validation, the loading state, the       *)
(* deferred callback with its try/catch) and displayResults, together      *)
(* with the JavaScript value semantics those methods rely on (truthiness,  *)
(* property reads, optional chaining, ||, String.prototype.toLowerCase).   *)
(***************************************************************************)
EXTENDS Integers, Sequences, FiniteSets, TLC

VARIABLES
  followingInput,  \* value of the textarea #followingInput (a text)
  followersInput,  \* value of the textarea #followersInput (a text)
  button,          \* the analyze button: [disabled, textContent]
  resultsDiv,      \* content of #results
  timers,          \* pending setTimeout callbacks, oldest first
  nextTimerId,     \* the id setTimeout hands out next
  alerted,         \* alert() messages raised by the last handler that ran
  logged,          \* console.error entries of the last handler that ran
  ev,              \* the last event handled
  call             \* a direct call of a method: its arguments and what it returned

vars == <<followingInput, followersInput, button, resultsDiv, timers,
          nextTimerId, alerted, logged, ev, call>>

uiVars == <<followingInput, followersInput, button, resultsDiv, timers,
            nextTimerId, alerted, logged, ev>>

(***************************************************************************)
(* Bounds of the model.                                                    *)
(***************************************************************************)
\* longest array handed to extractUsernames / longest canonical list
MaxLen == 2
\* most setTimeout callbacks pending at once; timer ids are reused modulo
\* MaxPending + 1, so the ids of the pending timers differ
MaxPending == 2

(***************************************************************************)
(* JavaScript values. Every value is a record [t, v]: t is its type tag,   *)
(* v its payload (a sequence of characters for a string, a sequence of     *)
(* values for an array, a function from keys to values for an object).     *)
(***************************************************************************)
Undefined == [t |-> "undefined", v |-> <<>>]
Null      == [t |-> "null", v |-> <<>>]
Bool(b)   == [t |-> "boolean", v |-> b]
Num(n)    == [t |-> "number", v |-> n]
Str(c)    == [t |-> "string", v |-> c]
Arr(s)    == [t |-> "array", v |-> s]
Obj(f)    == [t |-> "object", v |-> f]

EmptyString == Str(<<>>)
NoFields == [k \in {} |-> Undefined]

\* property names the program reads, as character sequences
k_string_list_data ==
  <<"s","t","r","i","n","g","_","l","i","s","t","_","d","a","t","a">>
k_value == <<"v","a","l","u","e">>
k_href  == <<"h","r","e","f">>
k_title == <<"t","i","t","l","e">>
k_0     == <<"0">>
k_relationships_following ==
  <<"r","e","l","a","t","i","o","n","s","h","i","p","s","_",
    "f","o","l","l","o","w","i","n","g">>
k_relationships_followers ==
  <<"r","e","l","a","t","i","o","n","s","h","i","p","s","_",
    "f","o","l","l","o","w","e","r","s">>

\* ToBoolean, as used by !x, x || y and Array.prototype.filter
Truthy(x) ==
  CASE x.t = "undefined" -> FALSE
    [] x.t = "null"      -> FALSE
    [] x.t = "boolean"   -> x.v
    [] x.t = "number"    -> x.v # 0
    [] x.t = "string"    -> Len(x.v) > 0
    [] OTHER             -> TRUE

\* a || b
Or(a, b) == IF Truthy(a) THEN a ELSE b

IsNullish(x) == x.t \in {"undefined", "null"}

\* Array.isArray(x)
IsArray(x) == x.t = "array"

\* o.k for an o that is neither null nor undefined: an own field of an
\* object; the names read here are no property of an array, a string, a
\* number or a boolean
Prop(o, k) ==
  IF o.t = "object" /\ k \in DOMAIN o.v THEN o.v[k] ELSE Undefined

\* o?.k
OptProp(o, k) == IF IsNullish(o) THEN Undefined ELSE Prop(o, k)

\* o?.[0]
OptIndex0(o) ==
  CASE IsNullish(o)   -> Undefined
    [] o.t = "array"  -> IF Len(o.v) > 0 THEN o.v[1] ELSE Undefined
    [] o.t = "string" -> IF Len(o.v) > 0 THEN Str(<<o.v[1]>>) ELSE Undefined
    [] OTHER          -> Prop(o, k_0)

(***************************************************************************)
(* String.prototype.toLowerCase: locale independent, character by          *)
(* character; U+0130 (capital I with dot above) lower-cases to the two     *)
(* code units i, U+0307.                                                   *)
(***************************************************************************)
UpperLetters ==
  <<"A","B","C","D","E","F","G","H","I","J","K","L","M",
    "N","O","P","Q","R","S","T","U","V","W","X","Y","Z">>
LowerLetters ==
  <<"a","b","c","d","e","f","g","h","i","j","k","l","m",
    "n","o","p","q","r","s","t","u","v","w","x","y","z">>

LowerChar(c) ==
  IF c = "U+0130" THEN <<"i", "U+0307">>
  ELSE IF \E i \in 1..Len(UpperLetters) : UpperLetters[i] = c
       THEN <<LowerLetters[CHOOSE i \in 1..Len(UpperLetters) : UpperLetters[i] = c]>>
       ELSE <<c>>

RECURSIVE LowerChars(_)
LowerChars(s) ==
  IF s = <<>> THEN <<>> ELSE LowerChar(Head(s)) \o LowerChars(Tail(s))

\* a faulty variant: the comparison key keeps its case
toLowerCase_Identity(s) == s

\* s.toLowerCase() on the characters of a string
toLowerCase(s) == LowerChars(s)

\* x.toLowerCase() is callable only on a string
CanLower(x) == x.t = "string"

(***************************************************************************)
(* extractUsernames (src/script.js 140-154).                               *)
(***************************************************************************)
\* the map callback: item.string_list_data throws a TypeError on null
MapThrows(item) == IsNullish(item)

\* a faulty variant: an entry without a value never takes the title
MapItem_ValueOnly(item) ==
  LET sld   == Prop(item, k_string_list_data)
      entry == OptIndex0(sld)
  IN [username |-> IF IsNullish(entry)
                   THEN Or(Prop(item, k_title), EmptyString)
                   ELSE Or(OptProp(entry, k_value), EmptyString),
      href     |-> Or(OptProp(entry, k_href), EmptyString)]

\* the map callback on an item it does not throw on
MapItem(item) ==
  LET entry == OptIndex0(Prop(item, k_string_list_data))
  IN [username |-> Or(Or(OptProp(entry, k_value), Prop(item, k_title)), EmptyString),
      href     |-> Or(OptProp(entry, k_href), EmptyString)]

RECURSIVE FilterUsername(_)
\* .filter((x) => x.username)
FilterUsername(recs) ==
  IF recs = <<>> THEN <<>>
  ELSE IF Truthy(Head(recs).username)
       THEN <<Head(recs)>> \o FilterUsername(Tail(recs))
       ELSE FilterUsername(Tail(recs))

Returned(val) == [threw |-> FALSE, val |-> val]
Threw == [threw |-> TRUE, val |-> <<>>]

\* data.map(...).filter(...) on an array
MapFilter(items) ==
  IF \E i \in 1..Len(items) : MapThrows(items[i])
  THEN Threw
  ELSE Returned(FilterUsername([i \in 1..Len(items) |-> MapItem(items[i])]))

\* a faulty variant: no Array.isArray guard, so .map is called on whatever came in
extractUsernames_NoGuard(data) ==
  IF IsArray(data) THEN MapFilter(data.v) ELSE Threw

extractUsernames(data) ==
  IF ~IsArray(data) THEN Returned(<<>>) ELSE MapFilter(data.v)

(***************************************************************************)
(* The deferred computation of analyze (src/script.js 201-215).            *)
(***************************************************************************)
\* a faulty variant: the wrapper key is never looked at
Unwrap_RootOnly(raw, key) == raw

\* raw.relationships_... || raw, for a raw that passed the validation
Unwrap(raw, key) == Or(Prop(raw, key), raw)

\* new Set(followers.map((x) => x.username.toLowerCase()))
followersSet(followers) ==
  {toLowerCase(followers[j].username.v) : j \in 1..Len(followers)}

RECURSIVE FilterNotIn(_, _)
\* following.filter((x) => !followersSet.has(x.username.toLowerCase()))
FilterNotIn(following, set) ==
  IF following = <<>> THEN <<>>
  ELSE IF toLowerCase(Head(following).username.v) \notin set
       THEN <<Head(following)>> \o FilterNotIn(Tail(following), set)
       ELSE FilterNotIn(Tail(following), set)

\* lines 209-215 on two canonical lists; a username that is no string has
\* no toLowerCase method and the call throws
notFollowingBack(following, followers) ==
  IF \/ \E j \in 1..Len(followers) : ~CanLower(followers[j].username)
     \/ \E i \in 1..Len(following) : ~CanLower(following[i].username)
  THEN Threw
  ELSE Returned(FilterNotIn(following, followersSet(followers)))

\* lines 201-215: what the try block computes before displayResults; a
\* property read on null throws
Compute(followingRaw, followersRaw) ==
  IF IsNullish(followingRaw) \/ IsNullish(followersRaw) THEN Threw ELSE
  LET following == extractUsernames(Unwrap(followingRaw, k_relationships_following))
      followers == extractUsernames(Unwrap(followersRaw, k_relationships_followers))
  IN IF following.threw \/ followers.threw THEN Threw
     ELSE LET nfb == notFollowingBack(following.val, followers.val)
          IN IF nfb.threw THEN Threw
             ELSE Returned([following        |-> following.val,
                            followers        |-> followers.val,
                            notFollowingBack |-> nfb.val])

(***************************************************************************)
(* Texts. A text is a sequence of lexemes [k, c]: k is the kind of lexeme  *)
(* (white space, a punctuation mark, a literal, a number, a string, or     *)
(* characters that are no JSON token) and c its characters.                *)
(***************************************************************************)
Tok(k, c) == [k |-> k, c |-> c]
WS(c)    == Tok("ws", <<c>>)
LBracket == Tok("[", <<"[">>)
RBracket == Tok("]", <<"]">>)
LBrace   == Tok("{", <<"{">>)
RBrace   == Tok("}", <<"}">>)
Comma    == Tok(",", <<",">>)
Colon    == Tok(":", <<":">>)
TNull    == Tok("null", <<"n","u","l","l">>)
TFalse   == Tok("false", <<"f","a","l","s","e">>)
TTrue    == Tok("true", <<"t","r","u","e">>)
TNum(d)  == Tok("number", <<d>>)
TStr(c)  == Tok("string", c)
TJunk(c) == Tok("junk", c)

\* the decimal digits of a number lexeme
DigitValue(d) ==
  CASE d = "0" -> 0 [] d = "1" -> 1 [] d = "2" -> 2 [] d = "3" -> 3
    [] d = "4" -> 4 [] d = "5" -> 5 [] d = "6" -> 6 [] d = "7" -> 7
    [] d = "8" -> 8 [] d = "9" -> 9

RECURSIVE NumberValue(_, _)
NumberValue(ds, acc) ==
  IF ds = <<>> THEN acc
  ELSE NumberValue(Tail(ds), acc * 10 + DigitValue(Head(ds)))

RECURSIVE TrimStart(_)
TrimStart(text) ==
  IF text # <<>> /\ Head(text).k = "ws" THEN TrimStart(Tail(text)) ELSE text

RECURSIVE TrimEnd(_)
TrimEnd(text) ==
  IF text # <<>> /\ text[Len(text)].k = "ws"
  THEN TrimEnd(SubSeq(text, 1, Len(text) - 1))
  ELSE text

\* input.trim()
Trim(text) == TrimEnd(TrimStart(text))

(***************************************************************************)
(* JSON.parse (the built-in called at src/script.js 167): a recursive      *)
(* descent over the lexemes. A result is [ok, val, next, error]; error is  *)
(* the SyntaxError, with its message and the place it was raised.          *)
(***************************************************************************)
NoError == [message |-> "", near |-> <<>>, at |-> 0]
Parsed(val, next) == [ok |-> TRUE, val |-> val, next |-> next, error |-> NoError]
SyntaxError(text, i) ==
  [ok |-> FALSE, val |-> Undefined, next |-> i,
   error |-> IF i > Len(text)
             THEN [message |-> "Unexpected end of JSON input", near |-> <<>>, at |-> i]
             ELSE [message |-> "Unexpected token", near |-> text[i].c, at |-> i]]

RECURSIVE SkipWS(_, _)
SkipWS(text, i) ==
  IF i <= Len(text) /\ text[i].k = "ws" THEN SkipWS(text, i + 1) ELSE i

IsTok(text, i, k) == i <= Len(text) /\ text[i].k = k

RECURSIVE ParseValue(_, _), ParseElements(_, _, _), ParseMembers(_, _, _)
ParseValue(text, i0) ==
  LET i == SkipWS(text, i0)
  IN IF i > Len(text) THEN SyntaxError(text, i)
     ELSE CASE text[i].k = "null"   -> Parsed(Null, i + 1)
            [] text[i].k = "true"   -> Parsed(Bool(TRUE), i + 1)
            [] text[i].k = "false"  -> Parsed(Bool(FALSE), i + 1)
            [] text[i].k = "number" -> Parsed(Num(NumberValue(text[i].c, 0)), i + 1)
            [] text[i].k = "string" -> Parsed(Str(text[i].c), i + 1)
            [] text[i].k = "["      ->
                 IF IsTok(text, SkipWS(text, i + 1), "]")
                 THEN Parsed(Arr(<<>>), SkipWS(text, i + 1) + 1)
                 ELSE ParseElements(text, i + 1, <<>>)
            [] text[i].k = "{"      ->
                 IF IsTok(text, SkipWS(text, i + 1), "}")
                 THEN Parsed(Obj(NoFields), SkipWS(text, i + 1) + 1)
                 ELSE ParseMembers(text, i + 1, NoFields)
            [] OTHER                -> SyntaxError(text, i)

ParseElements(text, i, acc) ==
  LET r == ParseValue(text, i)
  IN IF ~r.ok THEN r
     ELSE LET j == SkipWS(text, r.next)
          IN CASE IsTok(text, j, ",") -> ParseElements(text, j + 1, Append(acc, r.val))
               [] IsTok(text, j, "]") -> Parsed(Arr(Append(acc, r.val)), j + 1)
               [] OTHER               -> SyntaxError(text, j)

ParseMembers(text, i, acc) ==
  LET n == SkipWS(text, i)
      c == SkipWS(text, n + 1)
  IN IF ~IsTok(text, n, "string") THEN SyntaxError(text, n)
     ELSE IF ~IsTok(text, c, ":") THEN SyntaxError(text, c)
     ELSE LET r == ParseValue(text, c + 1)
          IN IF ~r.ok THEN r
             ELSE LET j   == SkipWS(text, r.next)
                      obj == (text[n].c :> r.val) @@ acc
                  IN CASE IsTok(text, j, ",") -> ParseMembers(text, j + 1, obj)
                       [] IsTok(text, j, "}") -> Parsed(Obj(obj), j + 1)
                       [] OTHER               -> SyntaxError(text, j)

JSONParse(text) ==
  LET r == ParseValue(text, 1)
  IN IF ~r.ok THEN r
     ELSE IF SkipWS(text, r.next) <= Len(text)
          THEN SyntaxError(text, SkipWS(text, r.next))
          ELSE r

(***************************************************************************)
(* parseJSON (src/script.js 161-173). What it returns, what it alerts and  *)
(* what it writes to the console.                                          *)
(***************************************************************************)
ParseAlertText ==
  "Pomylka parsynhu JSON. Perevirte pravylnist formatu danykh."
AnalysisAlertText ==
  "Pomylka pid chas analizu. Perevirte format danykh."

\* alert(message): the user sees the message and nothing else
Alert(message) == [message |-> message, error |-> NoError]
\* console.error(label, error)
ConsoleError(label, error) == [message |-> label, error |-> error]

\* a faulty variant: only the empty text counts as blank
IsBlank_NoTrim(input) == input = <<>>

\* !input || !input.trim()
IsBlank(input) == input = <<>> \/ Trim(input) = <<>>

parseJSON(input) ==
  IF IsBlank(input)
  THEN [val |-> Null, alerts |-> <<>>, logs |-> <<>>]
  ELSE LET r == JSONParse(input)
       IN IF r.ok
          THEN [val |-> r.val, alerts |-> <<>>, logs |-> <<>>]
          ELSE [val    |-> Null,
                alerts |-> <<Alert(ParseAlertText)>>,
                logs   |-> <<ConsoleError("JSON parsing error:", r.error)>>]

(***************************************************************************)
(* The page: the button, the results area, displayResults and the handler  *)
(* analyze with its deferred callback (src/script.js 178-256).             *)
(***************************************************************************)
ReadyButton   == [disabled |-> FALSE, textContent |-> "Analizuvaty"]
LoadingButton == [disabled |-> TRUE, textContent |-> "Analizuiu..."]

InitialHTML == [kind |-> "initial", sections |-> <<>>]
LoadingHTML == [kind |-> "loading", sections |-> <<>>]
EmptyHTML   == [kind |-> "empty", sections |-> <<>>]
SectionsHTML(sections) == [kind |-> "sections", sections |-> sections]

\* createSection(title, data, ...): the section shows the title and the rows
createSection(title, data) == [title |-> title, data |-> data]

\* the three sections displayResults appends, in order
Sections(result) ==
  <<createSection("Following", result.following),
    createSection("Followers", result.followers),
    createSection("Ne pidpysani u vidpovid", result.notFollowingBack)>>

\* the DOM calls of displayResults: three appendChild, then scrollIntoView
NumDomCalls == 4

\* displayResults: innerHTML = '', then the DOM calls; fault = 0 when none of
\* them raises, else the number of the call that raises. The sections
\* appended before the exception stay in the results area.
displayResults(result, fault) ==
  IF fault = 0
  THEN [threw |-> FALSE, html |-> SectionsHTML(Sections(result))]
  ELSE [threw |-> TRUE,
        html  |-> IF fault = 1 THEN EmptyHTML
                  ELSE SectionsHTML(SubSeq(Sections(result), 1, fault - 1))]

\* a faulty variant: the catch block leaves the results area as it found it
Catch_KeepsResults(html) == [button |-> ReadyButton, resultsDiv |-> html]

\* the catch block (lines 226-228), entered with the results area showing html
Catch(html) == [button |-> ReadyButton, resultsDiv |-> EmptyHTML]

\* a faulty variant: the analysis goes on when either text parsed
Invalid_Both(followingRaw, followersRaw) ==
  ~Truthy(followingRaw) /\ ~Truthy(followersRaw)

\* !followingRaw || !followersRaw (line 189)
Invalid(followingRaw, followersRaw) ==
  ~Truthy(followingRaw) \/ ~Truthy(followersRaw)

Event(kind, via) == [kind |-> kind, via |-> via]

\* analyze(), lines 178-231 up to and including the setTimeout call
analyze(via) ==
  LET f == parseJSON(followingInput)
      w == parseJSON(followersInput)
  IN /\ Invalid(f.val, w.val) \/ Len(timers) < MaxPending
     /\ alerted' = f.alerts \o w.alerts
     /\ logged' = f.logs \o w.logs
     /\ ev' = Event("analyze", via)
     /\ IF Invalid(f.val, w.val)
        THEN UNCHANGED <<button, resultsDiv, timers, nextTimerId>>
        ELSE /\ button' = LoadingButton
             /\ resultsDiv' = LoadingHTML
             /\ timers' = Append(timers, [id           |-> nextTimerId,
                                           followingRaw |-> f.val,
                                           followersRaw |-> w.val])
             /\ nextTimerId' = (nextTimerId + 1) % (MaxPending + 1)
     /\ UNCHANGED <<followingInput, followersInput, call>>

\* a click on the button (line 23); a disabled button receives no click.
\* The button analyze() disables (document.querySelector('button'), line
\* 182) is taken to be this button.
Click == ~button.disabled /\ analyze("click")

\* Ctrl+Enter anywhere in the document (lines 27-32)
CtrlEnter == analyze("keydown")

\* the callback of lines 199-230, run when the oldest timer fires
TimerFire ==
  /\ timers # <<>>
  /\ \E fault \in 0..NumDomCalls :
       LET t == Head(timers)
           c == Compute(t.followingRaw, t.followersRaw)
           d == displayResults(c.val, fault)
       IN IF c.threw
          THEN /\ fault = 0
               /\ button' = Catch(resultsDiv).button
               /\ resultsDiv' = Catch(resultsDiv).resultsDiv
               /\ alerted' = <<Alert(AnalysisAlertText)>>
               /\ logged' = <<ConsoleError("Analysis error:", NoError)>>
               /\ ev' = Event("timer", "computeThrew")
          ELSE IF d.threw
          THEN /\ button' = Catch(d.html).button
               /\ resultsDiv' = Catch(d.html).resultsDiv
               /\ alerted' = <<Alert(AnalysisAlertText)>>
               /\ logged' = <<ConsoleError("Analysis error:", NoError)>>
               /\ ev' = Event("timer", "displayThrew")
          ELSE /\ button' = ReadyButton
               /\ resultsDiv' = d.html
               /\ alerted' = <<>>
               /\ logged' = <<>>
               /\ ev' = Event("timer", "displayed")
  /\ timers' = Tail(timers)
  /\ UNCHANGED <<followingInput, followersInput, nextTimerId, call>>

(***************************************************************************)
(* The texts a user pastes into the two textareas.                         *)
(***************************************************************************)
c_Bob == <<"B","o","b">>
c_bob == <<"b","o","b">>
c_BOB == <<"B","O","B">>
c_amy == <<"a","m","y">>
c_Amy == <<"A","m","y">>
c_zed == <<"z","e","d">>
c_h1  == <<"h","1">>
c_h2  == <<"h","2">>
c_h3  == <<"h","3">>
c_x   == <<"x">>
c_h   == <<"h">>

\* [ {"string_list_data":[{"value":"Bob","href":"h1"}]}, {"title":"amy"} ]
FollowingArrayText ==
  <<LBracket, WS(" "),
    LBrace, TStr(k_string_list_data), Colon, LBracket,
      LBrace, TStr(k_value), Colon, TStr(c_Bob), Comma,
              TStr(k_href), Colon, TStr(c_h1), RBrace,
    RBracket, RBrace, Comma, WS(" "),
    LBrace, TStr(k_title), Colon, TStr(c_amy), RBrace, WS(" "),
    RBracket>>

\* {"relationships_followers":[{"string_list_data":[{"value":"bob","href":"h2"}]}]}
FollowersWrappedText ==
  <<LBrace, TStr(k_relationships_followers), Colon, LBracket,
    LBrace, TStr(k_string_list_data), Colon, LBracket,
      LBrace, TStr(k_value), Colon, TStr(c_bob), Comma,
              TStr(k_href), Colon, TStr(c_h2), RBrace,
    RBracket, RBrace, RBracket, RBrace, WS("\n")>>

\* [{"string_list_data":[{"value":5}]}]
NumberValueText ==
  <<LBracket, LBrace, TStr(k_string_list_data), Colon, LBracket,
    LBrace, TStr(k_value), Colon, TNum("5"), RBrace,
    RBracket, RBrace, RBracket>>

\* "", "{bad", "false", "[null]", a bare array
FollowingTexts ==
  << <<>>,
     <<LBrace, TJunk(<<"b","a","d">>)>>,
     <<TFalse>>,
     <<LBracket, TNull, RBracket>>,
     FollowingArrayText >>

\* " \n", "[1,", "null", a wrapper object, an array with a number as value
FollowersTexts ==
  << <<WS(" "), WS("\n")>>,
     <<LBracket, TNum("1"), Comma>>,
     <<TNull>>,
     FollowersWrappedText,
     NumberValueText >>

\* the user replaces the text of #followingInput
EditFollowing ==
  /\ \E i \in 1..Len(FollowingTexts) : followingInput' = FollowingTexts[i]
  /\ ev' = Event("edit", "following")
  /\ alerted' = <<>>
  /\ logged' = <<>>
  /\ UNCHANGED <<followersInput, button, resultsDiv, timers, nextTimerId, call>>

\* the user replaces the text of #followersInput
EditFollowers ==
  /\ \E i \in 1..Len(FollowersTexts) : followersInput' = FollowersTexts[i]
  /\ ev' = Event("edit", "followers")
  /\ alerted' = <<>>
  /\ logged' = <<>>
  /\ UNCHANGED <<followingInput, button, resultsDiv, timers, nextTimerId, call>>

Idle == [fn |-> "idle", args |-> <<>>, ret |-> Returned(<<>>)]

\* the page once init() has registered the listeners: empty textareas, the
\* button enabled, nothing pending
Init ==
  /\ followingInput = <<>>
  /\ followersInput = <<>>
  /\ button = ReadyButton
  /\ resultsDiv = InitialHTML
  /\ timers = <<>>
  /\ nextTimerId = 0
  /\ alerted = <<>>
  /\ logged = <<>>
  /\ ev = Event("init", "none")
  /\ call = Idle

Next ==
  \/ EditFollowing
  \/ EditFollowers
  \/ Click
  \/ CtrlEnter
  \/ TimerFire

Spec == Init /\ [][Next]_vars

\* what TimerFire does to the timers: the oldest pending callback is taken
\* off the queue. No other action shortens the queue, so a step of Next is
\* a TimerDue step exactly when it is a TimerFire step, and TimerDue is
\* enabled exactly when a timer is pending.
TimerDue == timers # <<>> /\ timers' = Tail(timers)

\* the event loop runs every timer that is due
SpecFair == Spec /\ WF_timers(TimerDue)

(***************************************************************************)
(* Direct calls of the methods, on inputs drawn from bounded sets.         *)
(***************************************************************************)
Field1(k, x) == Obj(k :> x)
Field2(k1, x1, k2, x2) == Obj((k1 :> x1) @@ (k2 :> x2))
Entry(value, href) == Field2(k_value, Str(value), k_href, Str(href))

\* elements of an export array, well formed and not
Items ==
  << Null,
     Num(7),
     Str(c_x),
     Obj(NoFields),
     Field1(k_title, Str(c_amy)),
     Field2(k_string_list_data, Arr(<<>>), k_title, Str(c_Amy)),
     Field1(k_string_list_data, Arr(<<Entry(c_Bob, c_h1)>>)),
     Field2(k_string_list_data, Arr(<<Field1(k_href, Str(c_h2))>>), k_title, Str(c_bob)),
     Field2(k_string_list_data, Arr(<<Entry(<<>>, c_h3)>>), k_title, Str(c_BOB)),
     Field1(k_string_list_data, Arr(<<Field1(k_value, Num(5))>>)),
     Field2(k_string_list_data, Arr(<<Null>>), k_title, Str(c_amy)),
     Field2(k_string_list_data, Str(<<"x","y">>), k_title, Num(0)),
     Field2(k_string_list_data,
            Arr(<<Field2(k_value, Str(c_bob), k_href, Num(0))>>),
            k_title, Str(c_zed)) >>

\* the index sequences of length at most MaxLen into n samples
IndexSeqs(n) == UNION { [1..m -> 1..n] : m \in 0..MaxLen }

\* the samples an index sequence picks, in its order
Pick(samples, ix) == [i \in DOMAIN ix |-> samples[ix[i]]]

\* values that are no array
NonArrays ==
  << Null, Undefined, Str(<<"n","o","t">>), EmptyString, Num(0), Num(7),
     Bool(TRUE), Obj(NoFields),
     Field1(k_relationships_following, Arr(<<Field1(k_title, Str(c_amy))>>)) >>

\* canonical records: a non-empty username, a href that may be empty
Record(username, href) == [username |-> Str(username), href |-> Str(href)]
Records ==
  << Record(c_Bob, c_h1),
     Record(c_bob, c_h2),
     Record(c_BOB, <<>>),
     Record(c_amy, c_h3),
     Record(<<"U+0130">>, c_h),
     Record(<<"i","U+0307">>, <<>>) >>

\* parsed roots for the followers side
FollowersRoots ==
  << Arr(<<Items[7], Items[5]>>),
     Field1(k_relationships_followers, Arr(<<Items[8]>>)),
     Field1(k_relationships_following, Arr(<<Items[8]>>)),
     Field1(k_relationships_followers, Arr(<<>>)),
     Str(c_bob) >>

\* parsed roots that hold no array under the following key
OtherRoots ==
  << Obj(NoFields),
     Field1(k_relationships_followers, Arr(<<Items[7]>>)),
     Field1(k_relationships_following, Null),
     Str(c_x),
     Num(7),
     Bool(TRUE) >>

Called(fn, args, ret) == [fn |-> fn, args |-> args, ret |-> ret]

\* extractUsernames(data) on an array
CallExtractArray ==
  /\ call.fn = "idle"
  /\ \E ix \in IndexSeqs(Len(Items)) :
       LET data == Arr(Pick(Items, ix))
       IN call' = Called("extractUsernames", <<data>>, extractUsernames(data))
  /\ UNCHANGED uiVars

\* extractUsernames(data) on a value that is no array
CallExtractOther ==
  /\ call.fn = "idle"
  /\ \E i \in 1..Len(NonArrays) :
       call' = Called("extractUsernames", <<NonArrays[i]>>, extractUsernames(NonArrays[i]))
  /\ UNCHANGED uiVars

\* lines 209-215 on two canonical lists
CallNotFollowingBack ==
  /\ call.fn = "idle"
  /\ \E fx \in IndexSeqs(Len(Records)), wx \in IndexSeqs(Len(Records)) :
       LET following == Pick(Records, fx)
           followers == Pick(Records, wx)
       IN call' = Called("notFollowingBack", <<following, followers>>,
                         notFollowingBack(following, followers))
  /\ UNCHANGED uiVars

\* lines 201-215 on a bare array or on the wrapper object around it
CallComputeArray ==
  /\ call.fn = "idle"
  /\ \E ix \in IndexSeqs(Len(Items)), wrapped \in BOOLEAN, j \in 1..Len(FollowersRoots) :
       LET A == Arr(Pick(Items, ix))
           followingRaw == IF wrapped THEN Field1(k_relationships_following, A) ELSE A
       IN call' = Called("compute", <<followingRaw, FollowersRoots[j]>>,
                         Compute(followingRaw, FollowersRoots[j]))
  /\ UNCHANGED uiVars

\* lines 201-215 on a root without an array under the following key
CallComputeOther ==
  /\ call.fn = "idle"
  /\ \E i \in 1..Len(OtherRoots), j \in 1..Len(FollowersRoots) :
       call' = Called("compute", <<OtherRoots[i], FollowersRoots[j]>>,
                      Compute(OtherRoots[i], FollowersRoots[j]))
  /\ UNCHANGED uiVars

\* the call is over
CallReturn ==
  /\ call.fn # "idle"
  /\ call' = Idle
  /\ UNCHANGED uiVars

NextCore ==
  \/ CallExtractArray
  \/ CallExtractOther
  \/ CallNotFollowingBack
  \/ CallComputeArray
  \/ CallComputeOther
  \/ CallReturn

SpecCore == Init /\ [][NextCore]_vars

(***************************************************************************)
(* Properties of the direct calls (SpecCore).                              *)
(***************************************************************************)
\* a strictly increasing f with out[k] = in[f[k]]: out takes the elements of
\* in at the positions K, in their order
TakesPositions(out, in, K) ==
  /\ Len(out) = Cardinality(K)
  /\ \E f \in [1..Len(out) -> K] :
       /\ \A a, b \in 1..Len(out) : a < b => f[a] < f[b]
       /\ \A a \in 1..Len(out) : out[a] = in[f[a]]

\* the lower-cased username of a canonical record
Folded(rec) == LowerChars(rec.username.v)

\* the positions of following whose username no followers record matches
Unmatched(following, followers) ==
  { i \in 1..Len(following) :
      \A j \in 1..Len(followers) : Folded(following[i]) # Folded(followers[j]) }

\* C1: for canonical lists, notFollowingBack is exactly the sub-sequence of
\* following (same order, each record unchanged) of the records whose
\* lower-cased username equals the lower-cased username of no followers
\* record.
C1_Theorem ==
  call.fn = "notFollowingBack" =>
    /\ ~call.ret.threw
    /\ TakesPositions(call.ret.val, call.args[1],
                      Unmatched(call.args[1], call.args[2]))

\* following = [Bob], followers = [bob] gives an empty list
C1_Witness ==
  /\ call.fn = "notFollowingBack"
  /\ call.args = << <<Record(c_Bob, c_h1)>>, <<Record(c_bob, c_h2)>> >>
  /\ call.ret = Returned(<<>>)

\* the positions of the items whose derived username is truthy
KeptItems(items) == { i \in 1..Len(items) : Truthy(MapItem(items[i]).username) }

\* C2: for every array, extractUsernames returns a list no longer than the
\* input, every record with a non-empty username, in the order of the input
\* elements the records came from.
C2_Claim ==
  (call.fn = "extractUsernames" /\ call.args[1].t = "array") =>
    /\ ~call.ret.threw
    /\ Len(call.ret.val) <= Len(call.args[1].v)
    /\ \A k \in 1..Len(call.ret.val) : Truthy(call.ret.val[k].username)
    /\ TakesPositions(call.ret.val,
                      [i \in 1..Len(call.args[1].v) |-> MapItem(call.args[1].v[i])],
                      KeptItems(call.args[1].v))

\* the first item of string_list_data, Undefined when there is none
FirstEntry(item) ==
  LET sld == IF item.t = "object" /\ k_string_list_data \in DOMAIN item.v
             THEN item.v[k_string_list_data] ELSE Undefined
  IN OptIndex0(sld)

FieldOf(x, k) == IF x.t = "object" /\ k \in DOMAIN x.v THEN x.v[k] ELSE Undefined

\* the record C3 describes: with a first item the username is its value, the
\* title counts only without one
ClaimedRecord(item) ==
  [username |-> IF FirstEntry(item).t \in {"undefined", "null"}
                THEN (IF Truthy(FieldOf(item, k_title))
                      THEN FieldOf(item, k_title) ELSE EmptyString)
                ELSE (IF Truthy(FieldOf(FirstEntry(item), k_value))
                      THEN FieldOf(FirstEntry(item), k_value) ELSE EmptyString),
   href     |-> IF Truthy(FieldOf(FirstEntry(item), k_href))
                THEN FieldOf(FirstEntry(item), k_href) ELSE EmptyString]

\* the record the code derives: the value of the first item when it is
\* truthy, else the title when it is truthy, else the empty string
FallbackRecord(item) ==
  [username |-> IF Truthy(FieldOf(FirstEntry(item), k_value))
                THEN FieldOf(FirstEntry(item), k_value)
                ELSE IF Truthy(FieldOf(item, k_title))
                     THEN FieldOf(item, k_title) ELSE EmptyString,
   href     |-> IF Truthy(FieldOf(FirstEntry(item), k_href))
                THEN FieldOf(FirstEntry(item), k_href) ELSE EmptyString]

NoNullItem(data) == \A i \in 1..Len(data.v) : data.v[i].t \notin {"undefined", "null"}

RECURSIVE DropEmpty(_)
DropEmpty(recs) ==
  IF recs = <<>> THEN <<>>
  ELSE (IF Truthy(Head(recs).username) THEN <<Head(recs)>> ELSE <<>>)
       \o DropEmpty(Tail(recs))

\* C3 as stated: the username of an element whose string_list_data has a
\* first item is that item's value and never the title.
C3_Original ==
  (call.fn = "extractUsernames" /\ call.args[1].t = "array" /\ NoNullItem(call.args[1])) =>
    call.ret = Returned(DropEmpty([i \in 1..Len(call.args[1].v) |->
                                     ClaimedRecord(call.args[1].v[i])]))

\* C3, amended: for each element that is not null the username is the value
\* of the first item of string_list_data when that value is truthy, else the
\* title when it is truthy (also when the first item exists and has no or an
\* empty value), else the empty string; href is the first item's href when
\* truthy, else the empty string.
C3_Theorem ==
  (call.fn = "extractUsernames" /\ call.args[1].t = "array" /\ NoNullItem(call.args[1])) =>
    call.ret = Returned(DropEmpty([i \in 1..Len(call.args[1].v) |->
                                     FallbackRecord(call.args[1].v[i])]))

\* an element whose first item has a href and no value takes the title
C3_Witness ==
  /\ call.fn = "extractUsernames"
  /\ call.args = <<Arr(<<Items[8]>>)>>
  /\ call.ret = Returned(<<Record(c_bob, c_h2)>>)

\* the array a root stands for: the array under the key, or the root itself
HasArrayAt(raw, key) ==
  raw.t = "object" /\ key \in DOMAIN raw.v /\ raw.v[key].t = "array"
HasKey(raw, key) == raw.t = "object" /\ key \in DOMAIN raw.v
Bare(raw, key) == IF HasArrayAt(raw, key) THEN raw.v[key] ELSE raw

\* the result triple of two values handed to the normalizer as they are
Direct(a, b) ==
  LET following == extractUsernames(a)
      followers == extractUsernames(b)
  IN IF following.threw \/ followers.threw THEN Threw
     ELSE LET nfb == notFollowingBack(following.val, followers.val)
          IN IF nfb.threw THEN Threw
             ELSE Returned([following        |-> following.val,
                            followers        |-> followers.val,
                            notFollowingBack |-> nfb.val])

\* C8: a wrapper object around an array A gives the result of the bare array
\* A, on either side, and a root without the key goes to the normalizer
\* unchanged.
C8_Theorem ==
  (/\ call.fn = "compute"
   /\ HasArrayAt(call.args[1], k_relationships_following)
        \/ ~HasKey(call.args[1], k_relationships_following)
   /\ HasArrayAt(call.args[2], k_relationships_followers)
        \/ ~HasKey(call.args[2], k_relationships_followers)) =>
    call.ret = Direct(Bare(call.args[1], k_relationships_following),
                      Bare(call.args[2], k_relationships_followers))

\* {relationships_following: [{string_list_data: [{value, href}]}]} against
\* a wrapped followers list that does not hold the name
C8_Witness ==
  /\ call.fn = "compute"
  /\ call.args[1] = Field1(k_relationships_following, Arr(<<Items[7]>>))
  /\ call.args[2] = Field1(k_relationships_followers, Arr(<<>>))
  /\ call.ret = Returned([following        |-> <<Record(c_Bob, c_h1)>>,
                          followers        |-> <<>>,
                          notFollowingBack |-> <<Record(c_Bob, c_h1)>>])

\* C9: extractUsernames of a value that is no array returns the empty list
\* and does not throw.
C9_Theorem ==
  (call.fn = "extractUsernames" /\ call.args[1].t # "array") =>
    call.ret = Returned(<<>>)

\* extractUsernames("not") returned []
C9_Witness ==
  /\ call.fn = "extractUsernames"
  /\ call.args = <<Str(<<"n","o","t">>)>>
  /\ call.ret = Returned(<<>>)

(***************************************************************************)
(* Properties of the page (Spec, SpecFair).                                *)
(***************************************************************************)
\* a text that is empty or holds white space only
WhitespaceOnly(text) == \A i \in 1..Len(text) : text[i].k = "ws"

\* a text that is not blank and that JSON.parse accepts
ParsesAsJSON(text) == ~WhitespaceOnly(text) /\ JSONParse(text).ok

\* a text that is not blank and that JSON.parse rejects
Malformed(text) == ~WhitespaceOnly(text) /\ ~JSONParse(text).ok

\* the step is a run of analyze()
AnalyzeStep == ev'.kind = "analyze"

\* C4: two non-blank texts that both parse as JSON, of whatever shape, give
\* an analysis that runs to completion with a result triple and no error
\* shown.
C4_Claim ==
  /\ (ev.kind = "analyze" /\ ParsesAsJSON(followingInput) /\ ParsesAsJSON(followersInput)) =>
       (alerted = <<>> /\ timers # <<>>)
  /\ ev.kind = "timer" => ev.via # "computeThrew"

\* the alerts of parseJSON on the two texts: one fixed message for each
\* text that is not blank and does not parse
ParseAlerts ==
  (IF Malformed(followingInput') THEN <<Alert(ParseAlertText)>> ELSE <<>>)
  \o (IF Malformed(followersInput') THEN <<Alert(ParseAlertText)>> ELSE <<>>)

\* C5 as stated: with a blank text, whatever the other text holds, no error
\* is surfaced and the button, the results area and the timers stay as they
\* were.
C5_Original ==
  [][(AnalyzeStep /\ (WhitespaceOnly(followingInput) \/ WhitespaceOnly(followersInput))) =>
       (alerted' = <<>> /\ UNCHANGED <<button, resultsDiv, timers>>)]_vars

\* C5, amended: with a blank text the request enters no loading state,
\* schedules nothing and leaves the button and the results area unchanged;
\* no error is surfaced for a blank text, and the only alert is the parse
\* alert of the other text when that one is not blank and does not parse.
C5_Theorem ==
  [][(AnalyzeStep /\ (WhitespaceOnly(followingInput) \/ WhitespaceOnly(followersInput))) =>
       (alerted' = ParseAlerts /\ UNCHANGED <<button, resultsDiv, timers>>)]_vars

\* analyze() ran on a white-space-only followers text beside a valid
\* following text, with an earlier result on display: nothing was alerted
C5_Witness ==
  /\ ev.kind = "analyze"
  /\ followingInput = FollowingArrayText
  /\ followersInput # <<>> /\ WhitespaceOnly(followersInput)
  /\ alerted = <<>>
  /\ resultsDiv.kind = "sections"
  /\ button = ReadyButton
  /\ timers = <<>>

\* the console entries of parseJSON on the two texts: the SyntaxError of
\* each text that does not parse
ParseLogs ==
  (IF Malformed(followingInput')
   THEN <<ConsoleError("JSON parsing error:", JSONParse(followingInput').error)>> ELSE <<>>)
  \o (IF Malformed(followersInput')
      THEN <<ConsoleError("JSON parsing error:", JSONParse(followersInput').error)>> ELSE <<>>)

\* some alert shows the SyntaxError of the text
AlertCarries(text) == \E i \in 1..Len(alerted') : alerted'[i].error = JSONParse(text).error

\* C6 as stated: a text that does not parse is surfaced to the user with
\* the parser's error message, and nothing is scheduled or changed.
C6_Original ==
  [][(AnalyzeStep /\ (Malformed(followingInput) \/ Malformed(followersInput))) =>
       /\ Malformed(followingInput) => AlertCarries(followingInput)
       /\ Malformed(followersInput) => AlertCarries(followersInput)
       /\ UNCHANGED <<button, resultsDiv, timers>>]_vars

\* C6, amended: a text that does not parse is surfaced to the user as one
\* fixed alert that does not carry the parser's message (the SyntaxError
\* goes to the console), and processing aborts before normalization:
\* nothing is scheduled, the button and the results area stay as they were.
C6_Theorem ==
  [][(AnalyzeStep /\ (Malformed(followingInput) \/ Malformed(followersInput))) =>
       /\ alerted' = ParseAlerts
       /\ \A i \in 1..Len(alerted') : alerted'[i] = Alert(ParseAlertText)
       /\ logged' = ParseLogs
       /\ UNCHANGED <<button, resultsDiv, timers>>]_vars

\* analyze() ran on "{bad" beside a valid followers text, with an earlier
\* result on display: one fixed alert, the SyntaxError on the console
C6_Witness ==
  /\ ev.kind = "analyze"
  /\ Malformed(followingInput)
  /\ followersInput = FollowersWrappedText
  /\ alerted = <<Alert(ParseAlertText)>>
  /\ Len(logged) = 1 /\ logged[1].error.message = "Unexpected token"
  /\ resultsDiv.kind = "sections"
  /\ timers = <<>>

PendingIds == { timers[i].id : i \in 1..Len(timers) }

\* the three complete sections, or nothing
CompleteOrCleared ==
  \/ resultsDiv = EmptyHTML
  \/ resultsDiv.kind = "sections" /\ Len(resultsDiv.sections) = 3

\* the state a deferred callback leaves behind
ReadyOutcome ==
  /\ button = ReadyButton
  /\ CompleteOrCleared
  /\ ev.via = "displayed" => (resultsDiv.kind = "sections" /\ alerted = <<>>)
  /\ ev.via # "displayed" => (resultsDiv = EmptyHTML /\ alerted = <<Alert(AnalysisAlertText)>>)

\* C7: every analysis that entered the loading state has its callback run,
\* and the callback leaves the button enabled with its normal label and the
\* results area either complete (three sections) or, after an exception in
\* the computation or the rendering, cleared with the generic alert shown.
C7_Theorem ==
  /\ [](ev.kind = "timer" => ReadyOutcome)
  /\ \A id \in 0..MaxPending :
       (id \in PendingIds) ~> (id \notin PendingIds /\ ev.kind = "timer")

\* a callback whose rendering raised: the alert is up, the area is cleared
C7_Witness ==
  /\ ev = Event("timer", "displayThrew")
  /\ button = ReadyButton
  /\ resultsDiv = EmptyHTML
  /\ alerted = <<Alert(AnalysisAlertText)>>

\* C10: while a deferred callback is pending the button is disabled and the
\* results area shows the loading indicator.
C10_Claim ==
  timers # <<>> => (button.disabled /\ resultsDiv = LoadingHTML)

====
